---- MODULE Spec2Model ----
(***************************************************************************)
(* Model of plexdrive's ChunkManager (chunk.go): RequestChunk and its      *)
(* goroutine, loadChunkFromDisk, storeChunkToDisk, the unbuffered response *)
(* channel and its consumer, and the chunk files on disk.                  *)
(*                                                                         *)
(* Byte slices are kept symbolically as run sequences: a run [v, lo, hi]   *)
(* stands for the bytes lo..hi-1 of the window data the gateway returned   *)
(* as content v; v = 0 is a run of hi zero bytes.  Runs are kept merged,   *)
(* so two slices are equal exactly when their run sequences are equal.     *)
(*                                                                         *)
(* Three specifications: Spec, the requests made on a constructed manager; *)
(* FairSpec, the same steps under the fairness of the goroutines and of    *)
(* the consumers that keep receiving, for what eventually happens; and     *)
(* CtorSpec, NewChunkManager applied to valid and invalid arguments and    *)
(* the alignment of the requests made on the manager it returns.           *)
(***************************************************************************)
EXTENDS Integers, Sequences, FiniteSets, TLC

\* ------------------------------------------------------------------ bounds
NumRequests == 2
NumContents == 2

Requests == 1..NumRequests
Contents == 1..NumContents

\* chunk sizes a constructed manager can have in the model
ChunkSizes == {4096, 8192}
ChunkPath == "/chunks"
\* request inputs
Offsets == {0, 9000}
Sizes == {1000, 2000}
\* lengths of the window data the gateway may return (a short last chunk, a
\* full chunk), clipped to the chunk size
ShortLens == {1808}
\* number of bytes a first, short write(2) may have transferred
PartLens == {1024}

Min(a, b) == IF a < b THEN a ELSE b
Max(a, b) == IF a > b THEN a ELSE b

\* ------------------------------------------------------------- byte slices
Run(v, lo, hi) == [v |-> v, lo |-> lo, hi |-> hi]
RunLen(x) == x.hi - x.lo

Empty == << >>
Zeros(n) == IF n <= 0 THEN Empty ELSE << Run(0, 0, n) >>
Data(v, n) == IF n <= 0 THEN Empty ELSE << Run(v, 0, n) >>

RECURSIVE BLen(_)
BLen(b) == IF b = Empty THEN 0 ELSE RunLen(Head(b)) + BLen(Tail(b))

\* a ++ b, merging the two runs at the seam when they continue each other
BCat(a, b) ==
    IF a = Empty THEN b
    ELSE IF b = Empty THEN a
    ELSE LET x == a[Len(a)]
             y == b[1]
         IN IF x.v = 0 /\ y.v = 0
            THEN SubSeq(a, 1, Len(a) - 1) \o << Run(0, 0, x.hi + y.hi) >> \o Tail(b)
            ELSE IF x.v = y.v /\ x.hi = y.lo
            THEN SubSeq(a, 1, Len(a) - 1) \o << Run(x.v, x.lo, y.hi) >> \o Tail(b)
            ELSE a \o b

\* b[:n]
RECURSIVE BTake(_, _)
BTake(b, n) ==
    IF n <= 0 \/ b = Empty THEN Empty
    ELSE LET h == Head(b)
         IN IF n >= RunLen(h)
            THEN BCat(<< h >>, BTake(Tail(b), n - RunLen(h)))
            ELSE << Run(h.v, h.lo, h.lo + n) >>

\* b[n:]
RECURSIVE BDrop(_, _)
BDrop(b, n) ==
    IF b = Empty THEN Empty
    ELSE IF n <= 0 THEN b
    ELSE LET h == Head(b)
         IN IF n >= RunLen(h)
            THEN BDrop(Tail(b), n - RunLen(h))
            ELSE IF h.v = 0
                 THEN << Run(0, 0, RunLen(h) - n) >> \o Tail(b)
                 ELSE << Run(h.v, h.lo + n, h.hi) >> \o Tail(b)

\* b[s:e], for 0 <= s <= e <= len(b)
Slice(b, s, e) == BTake(BDrop(b, s), e - s)

\* the file content after writing p at position pos (pwrite): a position past
\* the end leaves a hole of zero bytes
WriteAt(f, pos, p) ==
    BCat(BCat(BCat(BTake(f, pos), Zeros(pos - BLen(f))), p),
         BDrop(f, pos + BLen(p)))

\* ---------------------------------------------------------------- messages
NilErr == "nil"
Response(err, bytes) == [Error |-> err, Bytes |-> bytes]
NoResponse == Response("unset", Empty)

NoFile == [exists |-> FALSE, data |-> Empty]
File(b) == [exists |-> TRUE, data |-> b]

\* ---------------------------------------------------- chunk.go, pure parts
\* RequestChunk, lines 66-68: the alignment of a request to its chunk window
\* mutant of AlignFOffset: the position is taken within a 1024-byte block
AlignFOffsetBlock(offset, chunkSize) == offset % 1024

AlignFOffset(offset, chunkSize) == offset % chunkSize
AlignStart(offset, chunkSize) == offset - AlignFOffset(offset, chunkSize)
AlignEnd(offset, chunkSize) == AlignStart(offset, chunkSize) + chunkSize

ChunkRequest(offset, size, chunkSize) ==
    [Offset |-> offset, Size |-> size,
     fOffset |-> AlignFOffset(offset, chunkSize),
     offsetStart |-> AlignStart(offset, chunkSize),
     offsetEnd |-> AlignEnd(offset, chunkSize)]
NoRequest == [Offset |-> 0, Size |-> 0, fOffset |-> 0, offsetStart |-> 0, offsetEnd |-> 0]

\* every window start a request of the model can have: the names of the chunk
\* files of the one object directory
WindowStarts == { AlignStart(o, cs) : o \in Offsets, cs \in ChunkSizes }

\* f.ReadAt(buf, off) on a regular file: the number of bytes read and the error
ReadAtN(data, size, off) == Max(0, Min(size, BLen(data) - off))
ReadAtErr(data, size, off, ioErr) ==
    IF ioErr THEN "EIO"
    ELSE IF ReadAtN(data, size, off) < size THEN "EOF" ELSE NilErr
\* buf after the read: the bytes read, the rest of make([]byte, size) still zero
ReadAtBuf(data, size, off) ==
    BCat(Slice(data, off, off + ReadAtN(data, size, off)),
         Zeros(size - ReadAtN(data, size, off)))

\* mutant of DiskReadOK: the count of bytes read is not looked at
DiskReadOKAnyCount(n, err) == err \in {NilErr, "EOF", "ErrUnexpectedEOF"}

\* loadChunkFromDisk, line 111: the condition under which the read is a hit
DiskReadOK(n, err) == n > 0 /\ err \in {NilErr, "EOF", "ErrUnexpectedEOF"}

\* loadChunkFromDisk, lines 119-122: the bytes of the hit message
DiskBytes(buf, size, n) == BTake(buf, Min(size, BLen(buf)))

\* loadChunkFromDisk: file is the chunk file's state, io the failure injected
\* into the disk layer ("ok", "open", "read", "chtimes")
loadChunkFromDisk(file, req, io) ==
    IF ~file.exists \/ io = "open"
    THEN Response("Could not open file", Empty)
    ELSE LET n == ReadAtN(file.data, req.Size, req.fOffset)
             err == ReadAtErr(file.data, req.Size, req.fOffset, io = "read")
             buf == ReadAtBuf(file.data, req.Size, req.fOffset)
         IN IF DiskReadOK(n, err)
            THEN Response(NilErr, DiskBytes(buf, req.Size, n))
            ELSE Response("Could not read file", Empty)

\* mutant of loadTouches: the modification time is set once the file is open,
\* before the read
loadTouchesOnOpen(file, req, io) == file.exists /\ io \notin {"open", "chtimes"}

\* whether the lookup reaches os.Chtimes (line 115) and the call succeeds
loadTouches(file, req, io) ==
    /\ loadChunkFromDisk(file, req, io).Error = NilErr
    /\ io # "chtimes"

\* mutant of sOffset: the slice starts at the window start, not at fOffset
sOffsetZero(req, bytes) == 0

\* RequestChunk, lines 81-85: the network message on gateway success
sOffset(req, bytes) == Min(req.fOffset, BLen(bytes))
eOffset(req, bytes) == Min(req.fOffset + req.Size, BLen(bytes))
NetResponse(req, apiRes) ==
    Response(NilErr, Slice(apiRes.Bytes, sOffset(req, apiRes.Bytes), eOffset(req, apiRes.Bytes)))

\* the download gateway (downloadManager.RequestChunk): an error, or the window
\* bytes, of length <= chunkSize
GatewayError == "download failed"
GatewayLens(chunkSize) == { l \in ShortLens : l <= chunkSize } \cup {chunkSize}
GatewayResponses(chunkSize) ==
    { Response(GatewayError, Empty) } \cup
    { Response(NilErr, Data(v, l)) : v \in Contents, l \in GatewayLens(chunkSize) }

\* mutant of FileIsNotExist: the existence check is dropped, every store writes
FileIsNotExistAlways(file) == TRUE

\* storeChunkToDisk, line 142: os.Stat(filename) reports that the file is absent
FileIsNotExist(file) == ~file.exists

\* NewChunkManager, lines 40-58: the manager and the error it returns.  A nil
\* manager is the record with ok = FALSE.
NilManager == [ok |-> FALSE, ChunkPath |-> "", ChunkSize |-> 0]
Manager(chunkPath, chunkSize) ==
    [ok |-> TRUE, ChunkPath |-> chunkPath, ChunkSize |-> chunkSize]

\* mutant of NewChunkManager: the divisibility check of line 47 is missing
NewChunkManagerNoModCheck(chunkPath, chunkSize) ==
    IF chunkPath = ""
    THEN [manager |-> NilManager, err |-> "Path to chunk file must not be empty"]
    ELSE IF chunkSize < 4096
    THEN [manager |-> NilManager, err |-> "Chunk size must not be < 4096"]
    ELSE [manager |-> Manager(chunkPath, chunkSize), err |-> NilErr]

NewChunkManager(chunkPath, chunkSize) ==
    IF chunkPath = ""
    THEN [manager |-> NilManager, err |-> "Path to chunk file must not be empty"]
    ELSE IF chunkSize < 4096
    THEN [manager |-> NilManager, err |-> "Chunk size must not be < 4096"]
    ELSE IF chunkSize % 1024 # 0
    THEN [manager |-> NilManager, err |-> "Chunk size must be divideable by 1024"]
    ELSE [manager |-> Manager(chunkPath, chunkSize), err |-> NilErr]

\* the NewChunkManager call: not yet made, and made with what it returned
NotConstructed(chunkPath, chunkSize) ==
    [called |-> FALSE, chunkPath |-> chunkPath, chunkSize |-> chunkSize,
     manager |-> NilManager, err |-> NilErr]
Constructed(chunkPath, chunkSize) ==
    [called |-> TRUE, chunkPath |-> chunkPath, chunkSize |-> chunkSize,
     manager |-> NewChunkManager(chunkPath, chunkSize).manager,
     err |-> NewChunkManager(chunkPath, chunkSize).err]

\* ------------------------------------------------------------------- state
VARIABLES
    ctor,        \* the NewChunkManager call: its arguments and what it returned
    ChunkSize,   \* m.ChunkSize, fixed at construction
    dirExists,   \* whether the object's chunk directory exists
    files,       \* the chunk files of that directory, by window start
    touched,     \* per chunk file, the request whose lookup last set its mtime (0: none)
    pc,          \* where each request's goroutine stands
    req,         \* the ChunkRequest of each call, with its derived fields
    diskRes,     \* diskRes of each goroutine
    apiRes,      \* apiRes of each goroutine
    n,           \* n of each goroutine's f.ReadAt (line 110)
    rerr,        \* err of each goroutine's f.ReadAt (line 110), "" before the read
    nn,          \* bytes the goroutine's WriteFile has written so far
    warned,      \* whether storeChunkToDisk logged a warning (lines 138, 145)
    received,    \* the messages each consumer has received from res, in order
    gwCalls,     \* how often the gateway was invoked for each request
    abandoned,   \* whether the consumer of a request has stopped receiving
    fileAtCall,  \* the request's chunk file as it was when RequestChunk was called
    doneAtCall   \* the requests whose stream was closed when RequestChunk was called

vars == << ctor, ChunkSize, dirExists, files, touched, pc, req, diskRes, apiRes,
           n, rerr, nn, warned, received, gwCalls, abandoned, fileAtCall, doneAtCall >>

closed(r) == pc[r] = "done"

\* the requests' part of the state before any RequestChunk call
NoCalls ==
    /\ pc = [r \in Requests |-> "new"]
    /\ req = [r \in Requests |-> NoRequest]
    /\ diskRes = [r \in Requests |-> NoResponse]
    /\ apiRes = [r \in Requests |-> NoResponse]
    /\ n = [r \in Requests |-> 0]
    /\ rerr = [r \in Requests |-> ""]
    /\ nn = [r \in Requests |-> 0]
    /\ warned = [r \in Requests |-> FALSE]
    /\ received = [r \in Requests |-> << >>]
    /\ gwCalls = [r \in Requests |-> 0]
    /\ abandoned = [r \in Requests |-> FALSE]
    /\ fileAtCall = [r \in Requests |-> NoFile]
    /\ doneAtCall = [r \in Requests |-> {}]

\* the state after a successful NewChunkManager(_, ChunkPath, ChunkSize)
Init ==
    /\ ChunkSize \in ChunkSizes
    /\ ctor = Constructed(ChunkPath, ChunkSize)
    /\ dirExists = FALSE
    /\ files = [k \in WindowStarts |-> NoFile]
    /\ touched = [k \in WindowStarts |-> 0]
    /\ NoCalls

\* ----------------------------------------------------------------- actions
\* RequestChunk, lines 60-69 and 93: the channel is made, the goroutine started
\* and the request aligned.  Calls are numbered in the order they are made.
RequestChunk(r, offset, size) ==
    /\ pc[r] = "new"
    /\ \A q \in Requests : q < r => pc[q] # "new"
    /\ req' = [req EXCEPT ![r] = ChunkRequest(offset, size, ChunkSize)]
    /\ pc' = [pc EXCEPT ![r] = "load"]
    /\ fileAtCall' = [fileAtCall EXCEPT ![r] = files[AlignStart(offset, ChunkSize)]]
    /\ doneAtCall' = [doneAtCall EXCEPT ![r] = { q \in Requests : closed(q) }]
    /\ UNCHANGED << ctor, ChunkSize, dirExists, files, touched, diskRes, apiRes, n, rerr, nn,
                    warned, received, gwCalls, abandoned >>

\* mutant of AfterLoad: diskRes is sent whether or not it carries an error
AfterLoadAlways(res) == "sendDisk"

\* where the goroutine goes after loadChunkFromDisk returned res (lines 72-76)
AfterLoad(res) == IF res.Error # NilErr THEN "download" ELSE "sendDisk"

\* lines 71-76: the disk lookup
LoadChunk(r, io) ==
    /\ pc[r] = "load"
    /\ LET k == req[r].offsetStart
           res == loadChunkFromDisk(files[k], req[r], io)
       IN /\ diskRes' = [diskRes EXCEPT ![r] = res]
          /\ n' = [n EXCEPT ![r] = IF files[k].exists /\ io # "open"
                                   THEN ReadAtN(files[k].data, req[r].Size, req[r].fOffset)
                                   ELSE 0]
          /\ rerr' = [rerr EXCEPT ![r] = IF files[k].exists /\ io # "open"
                                         THEN ReadAtErr(files[k].data, req[r].Size,
                                                        req[r].fOffset, io = "read")
                                         ELSE ""]
          /\ touched' = IF loadTouches(files[k], req[r], io)
                        THEN [touched EXCEPT ![k] = r] ELSE touched
          /\ pc' = [pc EXCEPT ![r] = AfterLoad(res)]
    /\ UNCHANGED << ctor, ChunkSize, dirExists, files, req, apiRes, nn, warned, received,
                    gwCalls, abandoned, fileAtCall, doneAtCall >>

\* mutant of AfterDiskSend: a disk hit ends the request without the gateway call
AfterDiskSendSkip == "close"

\* where the goroutine goes once the consumer took diskRes (line 75 to line 78)
AfterDiskSend == "download"

\* line 75, res <- diskRes: the hand-off happens when the consumer receives
RecvDisk(r) ==
    /\ pc[r] = "sendDisk"
    /\ ~abandoned[r]
    /\ received' = [received EXCEPT ![r] = Append(@, diskRes[r])]
    /\ pc' = [pc EXCEPT ![r] = AfterDiskSend]
    /\ UNCHANGED << ctor, ChunkSize, dirExists, files, touched, req, diskRes, apiRes, n, rerr,
                    nn, warned, gwCalls, abandoned, fileAtCall, doneAtCall >>

\* mutant of Download: the gateway serves one request at a time and counts a
\* request as served once its consumer took its messages, so the call waits
\* while another request has a message untaken
DownloadAfterOthers(r, resp) ==
    /\ pc[r] = "download"
    /\ \A o \in Requests \ {r} : pc[o] \notin {"sendDisk", "sendNet"}
    /\ apiRes' = [apiRes EXCEPT ![r] = resp]
    /\ gwCalls' = [gwCalls EXCEPT ![r] = @ + 1]
    /\ pc' = [pc EXCEPT ![r] = "sendNet"]
    /\ UNCHANGED << ctor, ChunkSize, dirExists, files, touched, req, diskRes, n, rerr, nn,
                    warned, received, abandoned, fileAtCall, doneAtCall >>

\* mutant of Download: after a successful gateway call the chunk is stored
\* before the network message is sent
DownloadStoreFirst(r, resp) ==
    /\ pc[r] = "download"
    /\ apiRes' = [apiRes EXCEPT ![r] = resp]
    /\ gwCalls' = [gwCalls EXCEPT ![r] = @ + 1]
    /\ pc' = [pc EXCEPT ![r] = IF resp.Error = NilErr THEN "statDir" ELSE "sendNet"]
    /\ UNCHANGED << ctor, ChunkSize, dirExists, files, touched, req, diskRes, n, rerr, nn,
                    warned, received, abandoned, fileAtCall, doneAtCall >>

\* line 78: the gateway call
Download(r, resp) ==
    /\ pc[r] = "download"
    /\ apiRes' = [apiRes EXCEPT ![r] = resp]
    /\ gwCalls' = [gwCalls EXCEPT ![r] = @ + 1]
    /\ pc' = [pc EXCEPT ![r] = "sendNet"]
    /\ UNCHANGED << ctor, ChunkSize, dirExists, files, touched, req, diskRes, n, rerr, nn,
                    warned, received, abandoned, fileAtCall, doneAtCall >>

\* mutant of NetMessage: the gateway's error is replaced by an error of the manager
NetMessageWrapped(rq, api) ==
    IF api.Error = NilErr THEN NetResponse(rq, api) ELSE Response("Could not download chunk", Empty)

\* mutant of AfterNet: the chunk is stored whatever the gateway returned
AfterNetAlways(api) == "statDir"

\* mutant of AfterNet: on a gateway error the goroutine returns without closing res
AfterNetNoClose(api) == IF api.Error = NilErr THEN "statDir" ELSE "returned"

\* lines 80-90: the message sent after the gateway call, and what follows it
NetMessage(rq, api) == IF api.Error = NilErr THEN NetResponse(rq, api) ELSE api
AfterNet(api) == IF api.Error = NilErr THEN "statDir" ELSE "close"

\* mutant of RecvNet: res is buffered, the send completes whether or not the
\* consumer still receives
RecvNetBuffered(r) ==
    /\ pc[r] = "sendNet"
    /\ received' = [received EXCEPT ![r] =
                        IF abandoned[r] THEN @ ELSE Append(@, NetMessage(req[r], apiRes[r]))]
    /\ pc' = [pc EXCEPT ![r] = AfterNet(apiRes[r])]
    /\ UNCHANGED << ctor, ChunkSize, dirExists, files, touched, req, diskRes, apiRes, n, rerr,
                    nn, warned, gwCalls, abandoned, fileAtCall, doneAtCall >>

\* lines 83 and 89: the hand-off of the network message
RecvNet(r) ==
    /\ pc[r] = "sendNet"
    /\ ~abandoned[r]
    /\ received' = [received EXCEPT ![r] = Append(@, NetMessage(req[r], apiRes[r]))]
    /\ pc' = [pc EXCEPT ![r] = AfterNet(apiRes[r])]
    /\ UNCHANGED << ctor, ChunkSize, dirExists, files, touched, req, diskRes, apiRes, n, rerr,
                    nn, warned, gwCalls, abandoned, fileAtCall, doneAtCall >>

\* storeChunkToDisk, lines 135-140: os.Stat(chunkDir), os.MkdirAll
StatDir(r, mkdirOK) ==
    /\ pc[r] = "statDir"
    /\ dirExists' = (dirExists \/ mkdirOK)
    /\ warned' = [warned EXCEPT ![r] = ~dirExists /\ ~mkdirOK]
    /\ pc' = [pc EXCEPT ![r] = "statFile"]
    /\ UNCHANGED << ctor, ChunkSize, files, touched, req, diskRes, apiRes, n, rerr, nn,
                    received, gwCalls, abandoned, fileAtCall, doneAtCall >>

\* where storeChunkToDisk goes after os.Stat(filename) (line 142)
AfterStat(file) == IF FileIsNotExist(file) THEN "open" ELSE "close"

\* storeChunkToDisk, line 142
StatFile(r) ==
    /\ pc[r] = "statFile"
    /\ pc' = [pc EXCEPT ![r] = AfterStat(files[req[r].offsetStart])]
    /\ UNCHANGED << ctor, ChunkSize, dirExists, files, touched, req, diskRes, apiRes, n, rerr,
                    nn, warned, received, gwCalls, abandoned, fileAtCall, doneAtCall >>

\* ioutil.WriteFile (line 143), its os.OpenFile(O_WRONLY|O_CREATE|O_TRUNC): the
\* file is created, or cut to length 0 when it exists
OpenTrunc(r, ok) ==
    /\ pc[r] = "open"
    /\ IF dirExists /\ ok
       THEN /\ files' = [files EXCEPT ![req[r].offsetStart] = File(Empty)]
            /\ pc' = [pc EXCEPT ![r] = "write"]
            /\ UNCHANGED warned
       ELSE /\ pc' = [pc EXCEPT ![r] = "close"]
            /\ warned' = [warned EXCEPT ![r] = TRUE]
            /\ UNCHANGED files
    /\ UNCHANGED << ctor, ChunkSize, dirExists, touched, req, diskRes, apiRes, n, rerr, nn,
                    received, gwCalls, abandoned, fileAtCall, doneAtCall >>

\* the positions the next write(2) of f.Write can reach from position pos
WriteTargets(pos, len) == { p \in PartLens : pos < p /\ p < len } \cup { len }

\* ioutil.WriteFile, its f.Write: one write(2) at the descriptor's position
WriteData(r, upto) ==
    /\ pc[r] = "write"
    /\ upto \in WriteTargets(nn[r], BLen(apiRes[r].Bytes))
    /\ LET k == req[r].offsetStart
       IN files' = [files EXCEPT ![k] =
              File(WriteAt(files[k].data, nn[r], Slice(apiRes[r].Bytes, nn[r], upto)))]
    /\ nn' = [nn EXCEPT ![r] = upto]
    /\ pc' = [pc EXCEPT ![r] = IF upto = BLen(apiRes[r].Bytes) THEN "close" ELSE "write"]
    /\ UNCHANGED << ctor, ChunkSize, dirExists, touched, req, diskRes, apiRes, n, rerr, warned,
                    received, gwCalls, abandoned, fileAtCall, doneAtCall >>

\* ioutil.WriteFile, its f.Write failing: logged (lines 144-145), the file is
\* left as it is
WriteFail(r) ==
    /\ pc[r] = "write"
    /\ warned' = [warned EXCEPT ![r] = TRUE]
    /\ pc' = [pc EXCEPT ![r] = "close"]
    /\ UNCHANGED << ctor, ChunkSize, dirExists, files, touched, req, diskRes, apiRes, n, rerr,
                    nn, received, gwCalls, abandoned, fileAtCall, doneAtCall >>

\* line 64, the deferred close(res)
Close(r) ==
    /\ pc[r] = "close"
    /\ pc' = [pc EXCEPT ![r] = "done"]
    /\ UNCHANGED << ctor, ChunkSize, dirExists, files, touched, req, diskRes, apiRes, n, rerr,
                    nn, warned, received, gwCalls, abandoned, fileAtCall, doneAtCall >>

\* the consumer stops receiving from res before end-of-stream: it leaves the
\* message the goroutine offers untaken, or, having taken the last message,
\* does not wait for the close
Abandon(r) ==
    /\ pc[r] \in {"sendDisk", "sendNet", "close"}
    /\ ~abandoned[r]
    /\ abandoned' = [abandoned EXCEPT ![r] = TRUE]
    /\ UNCHANGED << ctor, ChunkSize, dirExists, files, touched, pc, req, diskRes, apiRes,
                    n, rerr, nn, warned, received, gwCalls, fileAtCall, doneAtCall >>

IOFaults == {"ok", "open", "read", "chtimes"}

Next ==
    \/ \E r \in Requests, o \in Offsets, s \in Sizes : RequestChunk(r, o, s)
    \/ \E r \in Requests, io \in IOFaults : LoadChunk(r, io)
    \/ \E r \in Requests : RecvDisk(r)
    \/ \E r \in Requests, resp \in GatewayResponses(ChunkSize) : Download(r, resp)
    \/ \E r \in Requests : RecvNet(r)
    \/ \E r \in Requests, ok \in BOOLEAN : StatDir(r, ok)
    \/ \E r \in Requests : StatFile(r)
    \/ \E r \in Requests, ok \in BOOLEAN : OpenTrunc(r, ok)
    \/ \E r \in Requests, p \in PartLens \cup {ChunkSize} \cup ShortLens : WriteData(r, p)
    \/ \E r \in Requests : WriteFail(r)
    \/ \E r \in Requests : Close(r)
    \/ \E r \in Requests : Abandon(r)

Spec == Init /\ [][Next]_vars

\* The fair specification draws each call's range from one offset and one size
\* (a read of 2000 bytes, 808 bytes into the second 8192-window or into the
\* third 4096-window) and the gateway's bytes from one content: which bytes
\* travel does not matter to whether a stream is closed.
FairOffsets == {9000}
FairSizes == {2000}
FairResponses(chunkSize) ==
    { resp \in GatewayResponses(chunkSize) :
        resp.Error # NilErr \/ \E l \in GatewayLens(chunkSize) : resp.Bytes = Data(1, l) }

\* one step of the goroutine of request r after its disk lookup, the consumer's
\* receive included: a receive is possible only while the consumer has not
\* stopped
TaskStep(r) ==
    \/ RecvDisk(r)
    \/ \E resp \in FairResponses(ChunkSize) : Download(r, resp)
    \/ RecvNet(r)
    \/ \E ok \in BOOLEAN : StatDir(r, ok)
    \/ StatFile(r)
    \/ \E ok \in BOOLEAN : OpenTrunc(r, ok)
    \/ \E p \in PartLens \cup {ChunkSize} \cup ShortLens : WriteData(r, p)
    \/ WriteFail(r)
    \/ Close(r)

FairNext ==
    \/ \E r \in Requests, o \in FairOffsets, s \in FairSizes : RequestChunk(r, o, s)
    \/ \E r \in Requests, io \in IOFaults : LoadChunk(r, io)
    \/ \E r \in Requests : TaskStep(r)
    \/ \E r \in Requests : Abandon(r)

\* the Go scheduler runs every runnable goroutine, every disk and gateway call
\* returns, and a consumer that has not stopped takes the message offered to
\* it.  Nothing obliges a caller to call RequestChunk or a consumer to stop.
\* The disk lookup is one step, enabled exactly when pc[r] = "load" and leaving
\* that place, so its weak fairness is []<>(pc[r] # "load").
Fairness ==
    \A r \in Requests : WF_vars(TaskStep(r)) /\ []<>(pc[r] # "load")

FairSpec == Init /\ [][FairNext]_vars /\ Fairness

\* ---------------------------------------------- construction and alignment
\* The arguments NewChunkManager is called with, and the offsets of the calls
\* made on the manager it returns.  Chunk sizes run over the multiples of 512 up
\* to 512 * MaxSizeSteps and the sizes next to the limit of line 44.
MaxSizeSteps == 20
CtorPaths == {"", ChunkPath}
CtorSizes == {-1024, 1000, 4095, 4097} \cup { 512 * k : k \in 0..MaxSizeSteps }
CtorOffsets == {0, 1, 4095, 4096, 9000, 10239, 10240, 1048577}
CtorCallSizes == {1000}
ValidSizes == { cs \in CtorSizes : NewChunkManager(ChunkPath, cs).err = NilErr }
CtorWindowStarts == { AlignStart(o, cs) : o \in CtorOffsets, cs \in ValidSizes }

CtorInit ==
    /\ ctor \in { NotConstructed(p, cs) : p \in CtorPaths, cs \in CtorSizes }
    /\ ChunkSize = 0
    /\ dirExists = FALSE
    /\ files = [k \in CtorWindowStarts |-> NoFile]
    /\ touched = [k \in CtorWindowStarts |-> 0]
    /\ NoCalls

\* the call NewChunkManager(_, chunkPath, chunkSize)
Construct ==
    /\ ~ctor.called
    /\ ctor' = Constructed(ctor.chunkPath, ctor.chunkSize)
    /\ ChunkSize' = NewChunkManager(ctor.chunkPath, ctor.chunkSize).manager.ChunkSize
    /\ UNCHANGED << dirExists, files, touched, pc, req, diskRes, apiRes, n, rerr, nn,
                    warned, received, gwCalls, abandoned, fileAtCall, doneAtCall >>

\* RequestChunk on the manager returned, up to the alignment of its request
CtorNext ==
    \/ Construct
    \/ /\ ctor.manager.ok
       /\ \E r \in Requests, o \in CtorOffsets, s \in CtorCallSizes : RequestChunk(r, o, s)

CtorSpec == CtorInit /\ [][CtorNext]_vars

\* ------------------------------------------------------------------ claims
Last(s) == s[Len(s)]
Hit(r) == diskRes[r].Error = NilErr
Miss(r) == diskRes[r].Error \notin {NilErr, "unset"}
NetOK(r) == apiRes[r].Error = NilErr
NetFailed(r) == apiRes[r].Error = GatewayError
Errors(r) == [i \in 1..Len(received[r]) |-> received[r][i].Error]

\* C1: a request read to end-of-stream has delivered one of four message
\* sequences, fixed by the disk lookup's and the gateway's outcome: hit and ok,
\* two successes; miss and ok, one success; hit and failure, a success then the
\* error; miss and failure, the error alone.  The disk message, when there is
\* one, is the first message; nothing is added once the stream is closed (the
\* sequence of a closed stream stays the one its outcomes fix).
C1_FourShapes ==
    \A r \in Requests :
        /\ Len(received[r]) <= 2
        /\ (Hit(r) /\ Len(received[r]) >= 1) => received[r][1] = diskRes[r]
        /\ closed(r) =>
            /\ (Hit(r) /\ NetOK(r)) => Errors(r) = << NilErr, NilErr >>
            /\ (Miss(r) /\ NetOK(r)) => Errors(r) = << NilErr >>
            /\ (Hit(r) /\ NetFailed(r)) => Errors(r) = << NilErr, GatewayError >>
            /\ (Miss(r) /\ NetFailed(r)) => Errors(r) = << GatewayError >>
            /\ (Hit(r) \/ Miss(r)) /\ (NetOK(r) \/ NetFailed(r))

C1_Witness ==
    \E r \in Requests :
        closed(r) /\ Hit(r) /\ NetFailed(r) /\ Len(received[r]) = 2

\* C2: the gateway is invoked exactly once per request, after the disk lookup
\* has returned, on a hit as on a miss: never before the lookup, never twice,
\* and no request ends without the call.
C2_GatewayOnce ==
    \A r \in Requests :
        /\ gwCalls[r] <= 1
        /\ gwCalls[r] = 1 => (Hit(r) \/ Miss(r))
        /\ pc[r] \in {"new", "load", "sendDisk", "download"} => gwCalls[r] = 0
        /\ closed(r) => gwCalls[r] = 1

C2_Witness ==
    \E r \in Requests :
        closed(r) /\ Hit(r) /\ gwCalls[r] = 1 /\ received[r][1] = diskRes[r]

\* C3: every error message a consumer receives is the gateway's error response
\* itself, it is the last message of its stream, so there is at most one, and
\* a closed stream has delivered at least one message; failures of the disk
\* layer (open, read, chtimes, mkdir, write) never reach the consumer.
C3_OnlyGatewayErrors ==
    \A r \in Requests :
        /\ \A i \in 1..Len(received[r]) :
              received[r][i].Error # NilErr =>
                  /\ received[r][i] = apiRes[r]
                  /\ NetFailed(r)
                  /\ i = Len(received[r])
                  /\ pc[r] \in {"close", "done"}
        /\ closed(r) => Len(received[r]) >= 1

C3_Witness ==
    \E r \in Requests :
        /\ closed(r)
        /\ diskRes[r].Error = "Could not read file"
        /\ received[r] = << apiRes[r] >>
        /\ NetFailed(r)
        /\ \E q \in Requests : closed(q) /\ warned[q]

\* C4: on gateway success with bytes B of length L, the network message carries
\* B[min(fOffset, L) .. min(fOffset + Size, L)); with chunk size 8192, offset
\* 9000, size 2000 and L = 1808 these are the 1000 bytes B[808 .. 1808).
C4_NetBytes ==
    \A r \in Requests :
        (NetOK(r) /\ pc[r] \notin {"new", "load", "sendDisk", "download", "sendNet"}) =>
            LET B == apiRes[r].Bytes[1]
                L == B.hi
                lo == Min(req[r].fOffset, L)
                hi == Min(req[r].fOffset + req[r].Size, L)
            IN /\ apiRes[r].Bytes = << Run(B.v, 0, L) >>
               /\ L <= ChunkSize
               /\ Last(received[r]).Bytes = IF lo < hi THEN << Run(B.v, lo, hi) >> ELSE Empty
               /\ (ChunkSize = 8192 /\ req[r].Offset = 9000 /\ req[r].Size = 2000 /\ L = 1808)
                     => /\ Last(received[r]).Bytes = << Run(B.v, 808, 1808) >>
                        /\ BLen(Last(received[r]).Bytes) = 1000

C4_Witness ==
    \E r \in Requests :
        /\ ChunkSize = 8192 /\ req[r].Offset = 9000 /\ req[r].Size = 2000
        /\ NetOK(r) /\ BLen(apiRes[r].Bytes) = 1808
        /\ closed(r)
        /\ BLen(Last(received[r]).Bytes) = 1000

Key(r) == req[r].offsetStart
Called(r) == pc[r] # "new"
NetDelivered(r) == pc[r] \in {"statDir", "statFile", "open", "write", "close", "done"}
\* ioutil.WriteFile of request r has returned without error
Wrote(r) == /\ pc[r] \in {"close", "done"}
            /\ NetOK(r)
            /\ nn[r] = BLen(apiRes[r].Bytes)

\* r ran alone: every other request that was called had its stream closed when
\* r was called
Alone(r) == \A o \in Requests \ {r} : Called(o) => o \in doneAtCall[r]

\* C5, for a request that no other request overlaps: on the short last chunk
\* both messages carry the available bytes and no more: the disk message has
\* min(Size, n) bytes, n the bytes ReadAt read from the file, and the network
\* message has the bytes of the requested range that the returned data covers.
C5_NoPadding ==
    \A r \in Requests :
        Alone(r) =>
            /\ Hit(r) => BLen(diskRes[r].Bytes) = Min(req[r].Size, n[r])
            /\ (NetOK(r) /\ NetDelivered(r)) =>
                  BLen(Last(received[r]).Bytes) =
                      Min(req[r].Size, Max(0, BLen(apiRes[r].Bytes) - req[r].fOffset))

\* C6: once a request has written the chunk file of a cache key, no step of
\* any request changes that file.
C6_WriteOnce ==
    [][ \A k \in WindowStarts :
            (\E r \in Requests : Key(r) = k /\ Wrote(r)) => files'[k] = files[k] ]_vars

\* q is the second of two calls of the same request made in sequence: p's
\* stream was closed when q was called, and no other request for the key is or
\* was in flight since
InSequence(p, q) ==
    /\ p # q
    /\ Called(q)
    /\ p \in doneAtCall[q]
    /\ req[p].Offset = req[q].Offset
    /\ \A o \in Requests \ {p, q} : Called(o) /\ Key(o) = Key(q) => o \in doneAtCall[p]

\* C7 as stated: after the second of two calls in sequence the key's chunk file
\* exists with the content it had after the first call, and the second call
\* invoked the gateway.
C7_SecondCallLeavesFile ==
    \A p, q \in Requests :
        (InSequence(p, q) /\ closed(q)) =>
            /\ files[Key(q)].exists
            /\ files[Key(q)] = fileAtCall[q]
            /\ gwCalls[q] = 1

\* C7, amended: when the first call left a chunk file for the key, the second
\* call in sequence never changes it, whatever the gateway returns to it, and
\* it still invokes the gateway.
C7_Idempotent ==
    \A p, q \in Requests :
        (InSequence(p, q) /\ fileAtCall[q].exists) =>
            /\ files[Key(q)] = fileAtCall[q]
            /\ closed(q) => gwCalls[q] = 1

C7_Witness ==
    \E p, q \in Requests :
        /\ InSequence(p, q) /\ closed(q)
        /\ Wrote(p) /\ NetOK(q)
        /\ apiRes[q].Bytes # apiRes[p].Bytes
        /\ files[Key(q)] = File(apiRes[p].Bytes)

\* the gateway returned the same bytes to every request of key k it served
SameBytes(k) ==
    \A p, q \in Requests :
        (Key(p) = k /\ Key(q) = k /\ NetOK(p) /\ NetOK(q)) => apiRes[p].Bytes = apiRes[q].Bytes

\* C8: when the gateway returns the same bytes for a key to all its requests, a
\* disk hit is always a read of the complete chunk file, and once two requests
\* of the key that fetched and stored without a logged failure have finished,
\* the file holds the gateway's bytes.
C8_NoCorruptRead ==
    \A r \in Requests :
        (Called(r) /\ SameBytes(Key(r)) /\ NetOK(r)) =>
            /\ Hit(r) => diskRes[r] = loadChunkFromDisk(File(apiRes[r].Bytes), req[r], "ok")
            /\ \A q \in Requests \ {r} :
                  (Key(q) = Key(r) /\ NetOK(q) /\ closed(q) /\ closed(r)
                                   /\ ~warned[q] /\ ~warned[r])
                      => files[Key(r)] = File(apiRes[r].Bytes)

\* C9, for a request that no other request overlaps and a gateway that returns
\* the same bytes for the key every time: when a disk-miss, network-success
\* request whose store logged no failure is closed, the key's chunk file holds
\* all the bytes the gateway returned to it, and the request delivered one
\* message, free of error.
C9_StoredAtClose ==
    \A r \in Requests :
        (closed(r) /\ Alone(r) /\ SameBytes(Key(r)) /\ Miss(r) /\ NetOK(r) /\ ~warned[r]) =>
            /\ files[Key(r)] = File(apiRes[r].Bytes)
            /\ Errors(r) = << NilErr >>

\* C10: a request whose gateway call fails persists nothing: none of its steps
\* before the call or after the failed call changes a chunk file or the
\* directory, and on a disk miss it ends having delivered the error alone.
C10_FailurePersistsNothing ==
    [][ \A r \in Requests :
            (pc'[r] # pc[r] /\ (apiRes'[r].Error = GatewayError
                                 \/ pc[r] \in {"new", "load", "sendDisk"})) =>
                /\ files' = files
                /\ dirExists' = dirExists
                /\ (pc'[r] = "done" /\ diskRes'[r].Error # NilErr) =>
                      received'[r] = << apiRes'[r] >> ]_vars

C10_Witness ==
    \E r \in Requests :
        /\ closed(r) /\ Miss(r) /\ NetFailed(r)
        /\ received[r] = << apiRes[r] >>
        /\ ~files[Key(r)].exists

\* the goroutine of r is blocked on a send whose consumer has stopped receiving
Stalled(r) == abandoned[r] /\ pc[r] \in {"sendDisk", "sendNet"}

\* C11: under FairSpec (the consumer receives until end-of-stream unless it is
\* stalled, every call returns) every request that was made eventually closes
\* its stream, on every path, and the consumer never receives more than two
\* messages
C11_Terminates ==
    \A r \in Requests :
        /\ Called(r) ~> (closed(r) \/ Stalled(r))
        /\ [](Len(received[r]) <= 2)
\* one request closed after a miss, a successful fetch and a failed write, the
\* other after a hit and a failed fetch
C11_Witness ==
    \E r, q \in Requests :
        /\ closed(r) /\ ~abandoned[r] /\ Miss(r) /\ NetOK(r) /\ warned[r] /\ Len(received[r]) = 1
        /\ closed(q) /\ ~abandoned[q] /\ Hit(q) /\ NetFailed(q) /\ Len(received[q]) = 2

\* the message the goroutine of r offers on res at a send
Offered(r) == IF pc[r] = "sendDisk" THEN diskRes[r] ELSE NetMessage(req[r], apiRes[r])
SendPoints == {"sendDisk", "sendNet"}

\* C12 as stated: a consumer that stops receiving before end-of-stream leaves
\* the stream never closed.  Violated: a consumer that stops after it took the
\* last message does not block the goroutine, which closes the stream.
C12_StoppedNeverCloses == \A r \in Requests : abandoned[r] => ~closed(r)

\* C12 amended: a message is emitted only by the consumer receiving it (the
\* goroutine leaves a send exactly when the consumer's messages grow by the
\* message offered, and the consumer has not stopped), and a goroutine whose
\* consumer stopped at a send stays at that send in every later state, so its
\* stream is never closed
C12_StalledForever ==
    [][\A r \in Requests :
          /\ Stalled(r) => Stalled(r)' /\ pc'[r] = pc[r] /\ received'[r] = received[r]
          /\ (pc[r] \in SendPoints /\ pc'[r] # pc[r])
                => ~abandoned[r] /\ received'[r] = Append(received[r], Offered(r))
          /\ received'[r] # received[r] => pc[r] \in SendPoints /\ pc'[r] # pc[r]]_vars
\* a consumer took the disk message and stopped before the network message,
\* while the other request ran to its close
C12_Witness ==
    \E r, q \in Requests :
        Stalled(r) /\ pc[r] = "sendNet" /\ Len(received[r]) = 1 /\ closed(q) /\ Key(q) = Key(r)

\* C13: under FairSpec, whenever the goroutine of one request is stalled on a
\* send, every other request that was made (every request of FairSpec has the
\* same cache key) still has its stream closed, unless its own consumer stops
\* at a send
C13_Independent ==
    \A r, q \in Requests :
        r # q => ((Stalled(q) /\ Called(r)) ~> (closed(r) \/ Stalled(r)))
\* the first request is stalled on its network message; the second, of the
\* same key, fetched the chunk, stored it and closed
C13_Witness ==
    \E r, q \in Requests :
        /\ q < r /\ Stalled(q) /\ pc[q] = "sendNet"
        /\ closed(r) /\ ~abandoned[r] /\ Key(r) = Key(q)
        /\ NetOK(r) /\ files[Key(r)] = File(apiRes[r].Bytes)

\* C14: NewChunkManager returns an error and no manager exactly when the path
\* is empty, or the chunk size is below 4096, or the chunk size is not a
\* multiple of 1024, and a manager and no error for every other input; the
\* sizes 0, 1000, 4097 and the empty path fail, 4096 and 8192 succeed
C14_Validation ==
    ctor.called =>
        LET invalid == \/ ctor.chunkPath = ""
                       \/ ctor.chunkSize < 4096
                       \/ ctor.chunkSize % 1024 # 0
            failed == ctor.err # NilErr /\ ~ctor.manager.ok
            built == ctor.err = NilErr /\ ctor.manager.ok
        IN /\ invalid <=> failed
           /\ ~invalid <=> built
           /\ ctor.chunkSize \in {0, 1000, 4097} \/ ctor.chunkPath = "" => failed
           /\ ctor.chunkSize \in {4096, 8192} /\ ctor.chunkPath # "" => built
\* the call with a non-empty path and size 4097 was made and failed
C14_Witness ==
    /\ ctor.called /\ ctor.chunkPath # "" /\ ctor.chunkSize = 4097
    /\ ctor.err # NilErr /\ ~ctor.manager.ok

\* C15: on a manager of a valid chunk size, the alignment of every request has
\* 0 <= fOffset < chunkSize, offsetStart <= Offset < offsetStart + chunkSize,
\* offsetStart a multiple of chunkSize and offsetEnd = offsetStart + chunkSize
C15_Alignment ==
    \A r \in Requests :
        Called(r) =>
            /\ ChunkSize >= 4096 /\ ChunkSize % 1024 = 0
            /\ req[r].Offset >= 0
            /\ 0 <= req[r].fOffset /\ req[r].fOffset < ChunkSize
            /\ req[r].offsetStart <= req[r].Offset
            /\ req[r].Offset < req[r].offsetStart + ChunkSize
            /\ req[r].offsetStart % ChunkSize = 0
            /\ req[r].offsetEnd = req[r].offsetStart + ChunkSize
\* an offset on the last byte of a window of a chunk size that is not a power
\* of two, and an offset far into the object
C15_Witness ==
    \E r, q \in Requests :
        /\ Called(r) /\ ChunkSize = 5120 /\ req[r].Offset = 10239
        /\ req[r].fOffset = 5119 /\ req[r].offsetStart = 5120
        /\ Called(q) /\ req[q].Offset = 1048577 /\ req[q].fOffset > 0

\* the disk lookup of r has returned
Looked(r) == pc[r] \notin {"new", "load"}
\* the lookup of r opened the chunk file and its read completed or was cut
\* short only by end-of-file
ReadToEOF(r) == rerr[r] \in {NilErr, "EOF"}

C17_DiskEqualsNet ==
    \A r \in Requests :
        (Alone(r) /\ SameBytes(Key(r)) /\ Hit(r) /\ NetOK(r) /\ Len(received[r]) = 2)
            => received[r][1].Bytes = received[r][2].Bytes

\* the step is one of the goroutine of r
StepOf(r) == pc'[r] # pc[r] \/ nn'[r] # nn[r]

\* C18: every step of a request's goroutine that creates the chunk directory
\* or creates or writes a chunk file is taken after the consumer received the
\* request's network-success message; a goroutine stalled on a send takes no
\* such step, so a consumer that stops before taking the network message
\* leaves the fetched chunk unwritten
C18_StoreAfterNet ==
    [][\A r \in Requests :
          (StepOf(r) /\ (files' # files \/ dirExists' # dirExists))
              => /\ NetOK(r) /\ NetDelivered(r) /\ ~Stalled(r)
                 /\ Len(received[r]) >= 1
                 /\ Last(received[r]) = NetResponse(req[r], apiRes[r])]_vars
\* one request wrote its chunk after its network message was received; the
\* other fetched its chunk, its consumer took nothing, and no file of its key
\* exists
C18_Witness ==
    \E r, q \in Requests :
        /\ Wrote(r) /\ Last(received[r]) = NetResponse(req[r], apiRes[r])
        /\ Stalled(q) /\ pc[q] = "sendNet" /\ NetOK(q) /\ received[q] = << >>
        /\ ~files[Key(q)].exists

\* the step is the disk lookup of r
LookupStep(r) == pc[r] = "load" /\ pc'[r] # "load"

\* C19: the disk lookup of a request leaves the directory and every chunk file
\* as they are and changes no modification time but, on a hit, that of the
\* file it read; on a miss no modification time changes; on a hit the time is
\* set or, if setting it fails, left, and in both cases the lookup returns the
\* hit message with the bytes read
C19_LookupFrame ==
    [][\A r \in Requests :
          LookupStep(r) =>
              /\ files' = files /\ dirExists' = dirExists
              /\ \A k \in DOMAIN touched : k # Key(r) => touched'[k] = touched[k]
              /\ Miss(r)' => touched' = touched
              /\ Hit(r)' =>
                    /\ touched'[Key(r)] \in {r, touched[Key(r)]}
                    /\ diskRes'[r] = loadChunkFromDisk(files[Key(r)], req[r], "ok")
                    /\ pc'[r] = "sendDisk"]_vars
\* a lookup hit although the modification time could not be set, and its
\* consumer received the bytes read
C19_Witness ==
    \E r \in Requests :
        /\ Hit(r) /\ touched[Key(r)] = 0 /\ files[Key(r)].exists
        /\ Len(received[r]) >= 1 /\ received[r][1] = diskRes[r]
        /\ BLen(diskRes[r].Bytes) > 0

\* no other request was in flight while r was: each was closed when r was
\* called or was called when r was closed
NoOverlap(r) ==
    \A o \in Requests \ {r} : Called(o) => (o \in doneAtCall[r] \/ r \in doneAtCall[o])

\* C20: a request whose store logged a failure still delivers its network
\* message as its last message, after one gateway call, and closes; and when
\* such a request ran alone and the next request of the same key and offset
\* runs alone after it, the later request's lookup is a miss, and if its fetch succeeds
\* and its store logs no failure the key's chunk file holds the bytes it fetched
C20_FailedWriteUncached ==
    \A p, q \in Requests :
        /\ (warned[p] /\ closed(p)) =>
              /\ gwCalls[p] = 1
              /\ Last(received[p]) = NetResponse(req[p], apiRes[p])
        /\ (warned[p] /\ NoOverlap(p) /\ Alone(q) /\ InSequence(p, q) /\ Key(p) = Key(q)) =>
              /\ Looked(q) => Miss(q)
              /\ (closed(q) /\ NetOK(q) /\ ~warned[q]) => files[Key(q)] = File(apiRes[q].Bytes)

====
